---- MODULE Spec2Model ----
(***************************************************************************)
(* A model of the ECS alerting Lambda (main.go): the handler decodes an    *)
(* event, classifies it, applies the monitored-services filter and sends   *)
(* the alert to Slack and to SES.                                          *)
(*                                                                         *)
(* A Go string is a sequence of one-character strings, so that Split,      *)
(* Contains, TrimSpace and Sprintf are computed as the library computes    *)
(* them.  The two code points of the warning sign are written "U+26A0"     *)
(* and "U+FE0F".                                                           *)
(***************************************************************************)
EXTENDS Integers, Sequences, FiniteSets, TLC

VARIABLES cfg, pc, event, isAlert, subject, message, serviceName,
          failureDetails, ret, slackCalls, slackPosts, slackErr, respStatus,
          emailCalls, emailSends, emailErr

vars == <<cfg, pc, event, isAlert, subject, message, serviceName,
          failureDetails, ret, slackCalls, slackPosts, slackErr, respStatus,
          emailCalls, emailSends, emailErr>>

(***************************************************************************)
(* Bounds of the model.                                                    *)
(***************************************************************************)
\* longest service reference / group string of an event
MaxLen == 3
\* most containers in a task
MaxContainers == 2

(***************************************************************************)
(* String literals of main.go and of the events fed to it.                 *)
(***************************************************************************)
\* 'ECS Deployment State Change'
DeploymentStateChange ==
    <<"E","C","S"," ","D","e","p","l","o","y","m","e","n","t"," ","S","t","a","t","e"," ","C","h","a","n","g","e">>
\* 'ECS Task State Change'
TaskStateChange ==
    <<"E","C","S"," ","T","a","s","k"," ","S","t","a","t","e"," ","C","h","a","n","g","e">>
\* 'EC2 Instance State-change Notification'
OtherDetailType ==
    <<"E","C","2"," ","I","n","s","t","a","n","c","e"," ","S","t","a","t","e","-","c","h","a","n","g","e"," ","N","o","t","i","f","i","c","a","t","i","o","n">>
\* 'SERVICE_DEPLOYMENT_FAILED'
DeploymentFailed ==
    <<"S","E","R","V","I","C","E","_","D","E","P","L","O","Y","M","E","N","T","_","F","A","I","L","E","D">>
\* 'SERVICE_DEPLOYMENT_COMPLETED'
DeploymentCompleted ==
    <<"S","E","R","V","I","C","E","_","D","E","P","L","O","Y","M","E","N","T","_","C","O","M","P","L","E","T","E","D">>
\* 'STOPPED'
Stopped ==
    <<"S","T","O","P","P","E","D">>
\* 'RUNNING'
Running ==
    <<"R","U","N","N","I","N","G">>
\* 'Scaling activity initiated by (deployment ...)'
ScalingDeployment ==
    <<"S","c","a","l","i","n","g"," ","a","c","t","i","v","i","t","y"," ","i","n","i","t","i","a","t","e","d"," ","b","y"," ","(","d","e","p","l","o","y","m","e","n","t"," ",".",".",".",")">>
\* 'Scaling activity'
ScalingActivity ==
    <<"S","c","a","l","i","n","g"," ","a","c","t","i","v","i","t","y">>
\* 'Service scheduler'
ServiceScheduler ==
    <<"S","e","r","v","i","c","e"," ","s","c","h","e","d","u","l","e","r">>
\* 'Unknown (Task run manually?)'
UnknownService ==
    <<"U","n","k","n","o","w","n"," ","(","T","a","s","k"," ","r","u","n"," ","m","a","n","u","a","l","l","y","?",")">>
\* 'ECS Deployment Alert'
DeploymentAlertSubject ==
    <<"E","C","S"," ","D","e","p","l","o","y","m","e","n","t"," ","A","l","e","r","t">>
\* 'ECS Service Rollback/Failure: '
RollbackSubjectPrefix ==
    <<"E","C","S"," ","S","e","r","v","i","c","e"," ","R","o","l","l","b","a","c","k","/","F","a","i","l","u","r","e",":"," ">>
\* 'ECS Deployment Event: '
FmtDeploymentEvent ==
    <<"E","C","S"," ","D","e","p","l","o","y","m","e","n","t"," ","E","v","e","n","t",":"," ">>
\* '\nCluster: '
FmtNlCluster ==
    <<"\n","C","l","u","s","t","e","r",":"," ">>
\* '\nService: '
FmtNlService ==
    <<"\n","S","e","r","v","i","c","e",":"," ">>
\* '\nReason: '
FmtNlReason ==
    <<"\n","R","e","a","s","o","n",":"," ">>
\* '*Service:* '
FmtService ==
    <<"*","S","e","r","v","i","c","e",":","*"," ">>
\* '\n*Event:* '
FmtNlEvent ==
    <<"\n","*","E","v","e","n","t",":","*"," ">>
\* '\n*Reason:* '
FmtNlReasonB ==
    <<"\n","*","R","e","a","s","o","n",":","*"," ">>
\* '\n*Cluster:* '
FmtNlClusterB ==
    <<"\n","*","C","l","u","s","t","e","r",":","*"," ">>
\* '\n*Task ARN:* '
FmtNlTaskArn ==
    <<"\n","*","T","a","s","k"," ","A","R","N",":","*"," ">>
\* '\n*Failure Details:*\n'
FmtNlFailureDetails ==
    <<"\n","*","F","a","i","l","u","r","e"," ","D","e","t","a","i","l","s",":","*","\n">>
\* "- Container '"
FmtContainer ==
    <<"-"," ","C","o","n","t","a","i","n","e","r"," ","'">>
\* "' exited with code "
FmtExitedWithCode ==
    <<"'"," ","e","x","i","t","e","d"," ","w","i","t","h"," ","c","o","d","e"," ">>
\* '- Task stopped: '
FmtTaskStopped ==
    <<"-"," ","T","a","s","k"," ","s","t","o","p","p","e","d",":"," ">>
\* ' ECS Task Failure: '
TaskFailureSubjectTail ==
    <<" ","E","C","S"," ","T","a","s","k"," ","F","a","i","l","u","r","e",":"," ">>
\* 'Essential container in task exited'
ReasonEssential ==
    <<"E","s","s","e","n","t","i","a","l"," ","c","o","n","t","a","i","n","e","r"," ","i","n"," ","t","a","s","k"," ","e","x","i","t","e","d">>
\* 'OOMKilled'
ReasonOOM ==
    <<"O","O","M","K","i","l","l","e","d">>
\* 'circuit breaker'
ReasonCircuit ==
    <<"c","i","r","c","u","i","t"," ","b","r","e","a","k","e","r">>
\* 'cluster/prod'
ClusterProd ==
    <<"c","l","u","s","t","e","r","/","p","r","o","d">>
\* 'task/0f1e'
TaskArnOne ==
    <<"t","a","s","k","/","0","f","1","e">>
\* 'app'
ContainerApp ==
    <<"a","p","p">>
\* 'https://hook'
WebhookURL ==
    <<"h","t","t","p","s",":","/","/","h","o","o","k">>
\* 'from@x'
AddrSender ==
    <<"f","r","o","m","@","x">>
\* 'to@x'
AddrRecipient ==
    <<"t","o","@","x">>

WarningSign == <<"U+26A0", "U+FE0F">>
TaskFailureSubjectPrefix == WarningSign \o TaskFailureSubjectTail

(***************************************************************************)
(* The string functions of the Go library that main.go calls.              *)
(***************************************************************************)
\* the first index of character c in s, 0 when there is none
IndexOf(s, c) ==
    IF \E i \in 1..Len(s) : s[i] = c
    THEN CHOOSE i \in 1..Len(s) : s[i] = c /\ \A j \in 1..(i - 1) : s[j] # c
    ELSE 0

RECURSIVE Split(_, _)
\* strings.Split(s, c) for a one-character separator: always at least one part
Split(s, c) ==
    LET i == IndexOf(s, c)
    IN  IF i = 0 THEN <<s>>
        ELSE <<SubSeq(s, 1, i - 1)>> \o Split(SubSeq(s, i + 1, Len(s)), c)

\* strings.Contains(s, sub)
Contains(s, sub) ==
    \E i \in 0..(Len(s) - Len(sub)) : SubSeq(s, i + 1, i + Len(sub)) = sub

RECURSIVE TrimSpace(_)
\* strings.TrimSpace(s)
TrimSpace(s) ==
    IF s = <<>> THEN s
    ELSE IF Head(s) = " " THEN TrimSpace(Tail(s))
    ELSE IF s[Len(s)] = " " THEN TrimSpace(SubSeq(s, 1, Len(s) - 1))
    ELSE s

Digit(d) == <<"0", "1", "2", "3", "4", "5", "6", "7", "8", "9">>[d + 1]

RECURSIVE Digits(_)
Digits(n) == IF n < 10 THEN <<Digit(n)>> ELSE Digits(n \div 10) \o <<Digit(n % 10)>>

\* fmt's %d of an int
Itoa(n) == IF n < 0 THEN <<"-">> \o Digits(0 - n) ELSE Digits(n)

(***************************************************************************)
(* encoding/json.  A JSON value is absent, null, a string or a number; an  *)
(* event's detail is either not JSON at all (valid = FALSE) or an object   *)
(* with these keys.  Unmarshal leaves a field at its zero value for an     *)
(* absent or null key and fails on a value of the wrong type.              *)
(***************************************************************************)
JAbsent == [t |-> "absent", s |-> <<>>, n |-> 0]
JNull == [t |-> "null", s |-> <<>>, n |-> 0]
JStr(x) == [t |-> "string", s |-> x, n |-> 0]
JNum(k) == [t |-> "number", s |-> <<>>, n |-> k]

StringFieldOk(jv) == jv.t \in {"absent", "null", "string"}
StringField(jv) == IF jv.t = "string" THEN jv.s ELSE <<>>
IntFieldOk(jv) == jv.t \in {"absent", "null", "number"}
IntField(jv) == IF jv.t = "number" THEN jv.n ELSE 0

\* json.Unmarshal(event.Detail, &detail) with detail an ECSDeplomentDetail
UnmarshalDeployment(p) ==
    [ok |-> /\ p.valid
            /\ \A f \in {"eventName", "cluster", "service", "reason"} :
                   StringFieldOk(p[f]),
     EventName |-> StringField(p.eventName),
     Cluster |-> StringField(p.cluster),
     Service |-> StringField(p.service),
     Reason |-> StringField(p.reason)]

ContainerOk(c) ==
    StringFieldOk(c.name) /\ IntFieldOk(c.exitCode) /\ StringFieldOk(c.reason)

ContainerInfo(c) ==
    [Name |-> StringField(c.name),
     ExitCode |-> IntField(c.exitCode),
     Reason |-> StringField(c.reason)]

\* json.Unmarshal(event.Detail, &detail) with detail an ECSTaskDetail
UnmarshalTask(p) ==
    [ok |-> /\ p.valid
            /\ \A f \in {"taskArn", "group", "lastStatus", "stoppedReason"} :
                   StringFieldOk(p[f])
            /\ p.containers.t \in {"absent", "null", "array"}
            /\ \A i \in 1..Len(p.containers.items) :
                   ContainerOk(p.containers.items[i]),
     TaskArn |-> StringField(p.taskArn),
     Group |-> StringField(p.group),
     LastStatus |-> StringField(p.lastStatus),
     StoppedReason |-> StringField(p.stoppedReason),
     Containers |-> [i \in 1..Len(p.containers.items) |->
                        ContainerInfo(p.containers.items[i])]]

(***************************************************************************)
(* The helpers of main.go.                                                 *)
(***************************************************************************)
\* getResourceName taking the first part instead of the last
getResourceNameFirst(arn) ==
    LET parts == Split(arn, "/")
    IN  IF Len(parts) > 0 THEN parts[1] ELSE arn

\* getResourceName: the last "/"-separated part
getResourceName(arn) ==
    LET parts == Split(arn, "/")
    IN  IF Len(parts) > 0 THEN parts[Len(parts)] ELSE arn

\* getServiceNameFromGroup taking the last part instead of the second
getServiceNameFromGroupLast(group) ==
    LET parts == Split(group, ":")
    IN  IF Len(parts) > 1 THEN parts[Len(parts)] ELSE UnknownService

\* getServiceNameFromGroup: the second ":"-separated part
getServiceNameFromGroup(group) ==
    LET parts == Split(group, ":")
    IN  IF Len(parts) > 1 THEN parts[2] ELSE UnknownService

\* strings.ToLower on the letters the model uses
ToLower(str) == [i \in 1..Len(str) |-> IF str[i] = "A" THEN "a" ELSE str[i]]

\* contains comparing as strings.EqualFold does
containsFold(slice, item) ==
    \E i \in 1..Len(slice) : ToLower(slice[i]) = ToLower(item)

\* contains: exact membership in the slice
contains(slice, item) == \E i \in 1..Len(slice) : slice[i] = item

\* init: MONITORED_SERVICES split on "," with every part trimmed
MonitoredServicesOf(servicesEnv) ==
    IF servicesEnv # <<>>
    THEN LET servicesList == Split(servicesEnv, ",")
         IN  [i \in 1..Len(servicesList) |-> TrimSpace(servicesList[i])]
    ELSE <<>>

(***************************************************************************)
(* handleRequest, lines 87-149: decode and classify.                       *)
(***************************************************************************)
\* isAlert := true
InitialIsAlertTrue == TRUE

\* isAlert := false
InitialIsAlert == FALSE

\* the deployment case: every decoded deployment event alerts
DeploymentAlert(detail) ==
    IF detail.EventName = DeploymentFailed
    THEN [isAlert |-> TRUE,
          subject |-> RollbackSubjectPrefix \o getResourceName(detail.Service),
          message |-> FmtService \o getResourceName(detail.Service)
                      \o FmtNlEvent \o detail.EventName
                      \o FmtNlReasonB \o detail.Reason
                      \o FmtNlClusterB \o getResourceName(detail.Cluster),
          failureDetails |-> <<>>]
    ELSE [isAlert |-> TRUE,
          subject |-> DeploymentAlertSubject,
          message |-> FmtDeploymentEvent \o detail.EventName
                      \o FmtNlCluster \o detail.Cluster
                      \o FmtNlService \o detail.Service
                      \o FmtNlReason \o detail.Reason,
          failureDetails |-> <<>>]

\* "- Container '%s' exited with code %d (%s)\n"
ContainerLine(c) ==
    FmtContainer \o c.Name \o FmtExitedWithCode \o Itoa(c.ExitCode)
    \o <<" ", "(">> \o c.Reason \o <<")", "\n">>

RECURSIVE ContainerLoop(_, _, _)
\* the loop over detail.Containers from index i with failureDetails = acc
ContainerLoop(containers, i, acc) ==
    IF i > Len(containers) THEN acc
    ELSE ContainerLoop(containers, i + 1,
                       IF containers[i].ExitCode # 0
                       THEN acc \o ContainerLine(containers[i])
                       ELSE acc)

\* failureDetails after the loop
ContainerFailureDetails(containers) == ContainerLoop(containers, 1, <<>>)

\* failedContainerFound after the loop
ContainerFailed(containers) ==
    \E i \in 1..Len(containers) : containers[i].ExitCode # 0

\* the conditions on detail.StoppedReason without the "Service scheduler" one
StoppedReasonAlertsNoScheduler(stoppedReason) ==
    /\ stoppedReason # <<>>
    /\ stoppedReason # ScalingDeployment
    /\ ~Contains(stoppedReason, ScalingActivity)

\* the two conditions on detail.StoppedReason
StoppedReasonAlerts(stoppedReason) ==
    /\ stoppedReason # <<>>
    /\ stoppedReason # ScalingDeployment
    /\ ~Contains(stoppedReason, ScalingActivity)
    /\ ~Contains(stoppedReason, ServiceScheduler)

\* the stopped reason looked at whatever the containers did
StoppedReasonAlwaysEvaluated(failedContainerFound) == TRUE

\* whether the stopped reason is looked at, given failedContainerFound
StoppedReasonEvaluated(failedContainerFound) == ~failedContainerFound

\* the task case
TaskAlert(detail) ==
    LET name == getServiceNameFromGroup(detail.Group)
        failed == ContainerFailed(detail.Containers)
        lines == ContainerFailureDetails(detail.Containers)
        byReason == /\ StoppedReasonEvaluated(failed)
                    /\ StoppedReasonAlerts(detail.StoppedReason)
        details == IF byReason
                   THEN lines \o FmtTaskStopped \o detail.StoppedReason \o <<"\n">>
                   ELSE lines
    IN  IF detail.LastStatus = Stopped /\ (failed \/ byReason)
        THEN [isAlert |-> TRUE,
              subject |-> TaskFailureSubjectPrefix \o name,
              message |-> FmtService \o name \o FmtNlTaskArn \o detail.TaskArn
                          \o FmtNlFailureDetails \o details,
              failureDetails |-> details]
        ELSE [isAlert |-> InitialIsAlert, subject |-> <<>>, message |-> <<>>,
              failureDetails |-> IF detail.LastStatus = Stopped THEN details ELSE <<>>]

\* the deployment case logging the decoding error without returning it
DecodeFailsTaskOnly(ev) ==
    ev.DetailType = TaskStateChange /\ ~UnmarshalTask(ev.Detail).ok

\* whether the switch returns the decoding error
DecodeFails(ev) ==
    \/ ev.DetailType = DeploymentStateChange /\ ~UnmarshalDeployment(ev.Detail).ok
    \/ ev.DetailType = TaskStateChange /\ ~UnmarshalTask(ev.Detail).ok

\* the switch on event.DetailType, for an event that decodes
Classify(ev) ==
    IF ev.DetailType = DeploymentStateChange
    THEN DeploymentAlert(UnmarshalDeployment(ev.Detail))
    ELSE IF ev.DetailType = TaskStateChange
    THEN TaskAlert(UnmarshalTask(ev.Detail))
    ELSE [isAlert |-> InitialIsAlert, subject |-> <<>>, message |-> <<>>,
          failureDetails |-> <<>>]

(***************************************************************************)
(* handleRequest, lines 150-167: the service name and the filter.          *)
(***************************************************************************)
\* the second decoding, which leaves serviceName empty when it fails
ResolveServiceName(ev) ==
    IF ev.DetailType = TaskStateChange
    THEN IF UnmarshalTask(ev.Detail).ok
         THEN getServiceNameFromGroup(UnmarshalTask(ev.Detail).Group)
         ELSE <<>>
    ELSE IF ev.DetailType = DeploymentStateChange
    THEN IF UnmarshalDeployment(ev.Detail).ok
         THEN getResourceName(UnmarshalDeployment(ev.Detail).Service)
         ELSE <<>>
    ELSE <<>>

\* whether handleRequest returns at line 165
FilterSkips(monitored, name) ==
    Len(monitored) > 0 /\ ~contains(monitored, name)

(***************************************************************************)
(* sendSlackNotification and sendEmail.                                    *)
(***************************************************************************)
StatusOK == 200
StatusBadRequest == 400

\* cfg.SlackWebhookURL == "" skips the notification
SlackConfigured(c) == c.SlackWebhookURL # <<>>

\* only the second test of resp.StatusCode
StatusErrorFrom400(status) ==
    IF status >= StatusBadRequest THEN "api" ELSE "nil"

\* the error sendSlackNotification returns for a response status
StatusError(status) ==
    IF status # StatusOK THEN "non200"
    ELSE IF status >= StatusBadRequest THEN "api"
    ELSE "nil"

\* the test of the addresses with && for ||
EmailConfiguredEither(c) == ~(c.SenderEmail = <<>> /\ c.RecipientEmail = <<>>)

\* cfg.SenderEmail == "" || cfg.RecipientEmail == "" skips the email
EmailConfigured(c) == ~(c.SenderEmail = <<>> \/ c.RecipientEmail = <<>>)

\* handleRequest returning when sendSlackNotification failed
AfterSlackReturnOnError(err) == IF err # "nil" THEN "done" ELSE "email"

\* where handleRequest goes after sendSlackNotification returned err
AfterSlack(err) == "email"

(***************************************************************************)
(* The configurations init() can build and the events the handler is fed.  *)
(***************************************************************************)
\* every string over alphabet of length at most n
Strings(alphabet, n) == UNION {[1..k -> alphabet] : k \in 0..n}

\* values of MONITORED_SERVICES: unset, "a", "A, aa" and ","
ServicesEnvs ==
    {<<>>, <<"a">>, <<"A", ",", " ", "a", "a">>, <<",">>}

Configs ==
    {[SlackWebhookURL |-> w, SenderEmail |-> s, RecipientEmail |-> r,
      MonitoredServices |-> MonitoredServicesOf(e)] :
        w \in {<<>>, WebhookURL}, s \in {<<>>, AddrSender},
        r \in {<<>>, AddrRecipient}, e \in ServicesEnvs}

NoContainers == [t |-> "absent", items |-> <<>>]

\* a detail object with none of the keys the handler reads
EmptyObject ==
    [valid |-> TRUE, eventName |-> JAbsent, cluster |-> JAbsent,
     service |-> JAbsent, reason |-> JAbsent, taskArn |-> JAbsent,
     group |-> JAbsent, lastStatus |-> JAbsent, stoppedReason |-> JAbsent,
     containers |-> NoContainers]

\* every short service reference, one with three parts, and null
ServiceRefs ==
    {JStr(s) : s \in Strings({"a", "/"}, MaxLen) \cup {<<"s", "/", "a", "/", "a", "a">>}}
    \cup {JNull}

EventNames == {JStr(DeploymentFailed), JStr(DeploymentCompleted), JAbsent}

DeploymentDetails ==
    {[EmptyObject EXCEPT !.eventName = n, !.service = s,
                         !.cluster = JStr(ClusterProd),
                         !.reason = JStr(ReasonCircuit)] :
        n \in EventNames, s \in ServiceRefs}

\* every short group, one with three parts, and an absent one
Groups ==
    {JStr(s) : s \in Strings({"a", ":"}, MaxLen) \cup {<<"s", ":", "a", ":", "a", "a">>}}
    \cup {JAbsent}

LastStatuses == {JStr(Stopped), JStr(Running)}

StoppedReasons ==
    {JAbsent, JStr(ScalingDeployment), JStr(<<"x", " ">> \o ScalingActivity),
     JStr(ServiceScheduler \o <<"!">>), JStr(ReasonEssential),
     JStr(<<"s">> \o Tail(ScalingActivity))}

ExitCodes == {0, 1, 137}

ContainerObjects ==
    {[name |-> JStr(ContainerApp), exitCode |-> JNum(x), reason |-> JStr(ReasonOOM)] :
        x \in ExitCodes}

\* every list of at most n containers
ContainerLists(n) ==
    {[t |-> "array", items |-> cs] :
        cs \in UNION {[1..k -> ContainerObjects] : k \in 0..n}}

\* every group with at most one container, and two groups with every list of
\* containers: the group decides the identifier, the containers the alert
TaskDetails ==
    {[EmptyObject EXCEPT !.taskArn = JStr(TaskArnOne), !.group = g,
                         !.lastStatus = l, !.stoppedReason = r,
                         !.containers = cs] :
        g \in Groups, l \in LastStatuses, r \in StoppedReasons,
        cs \in ContainerLists(1)}
    \cup
    {[EmptyObject EXCEPT !.taskArn = JStr(TaskArnOne), !.group = g,
                         !.lastStatus = l, !.stoppedReason = r,
                         !.containers = cs] :
        g \in {JStr(<<"s", ":", "a">>), JStr(<<"a">>)}, l \in LastStatuses,
        r \in StoppedReasons, cs \in ContainerLists(MaxContainers)}

\* details that are not JSON, or hold a value of the wrong type
MalformedDetails ==
    {[EmptyObject EXCEPT !.valid = FALSE],
     [EmptyObject EXCEPT !.service = JNum(1)],
     [EmptyObject EXCEPT !.group = JNum(1)],
     [EmptyObject EXCEPT !.lastStatus = JStr(Stopped),
                         !.containers = [t |-> "string", items |-> <<>>]],
     [EmptyObject EXCEPT !.lastStatus = JStr(Stopped),
                         !.containers =
                             [t |-> "array",
                              items |-> <<[name |-> JStr(ContainerApp),
                                           exitCode |-> JStr(<<"1">>),
                                           reason |-> JNull]>>]]}

\* one detail of each shape, for the events of another category
SampleDetails ==
    {EmptyObject,
     [EmptyObject EXCEPT !.eventName = JStr(DeploymentFailed),
                         !.service = JStr(<<"a">>)],
     [EmptyObject EXCEPT !.lastStatus = JStr(Stopped), !.group = JStr(<<":", "a">>),
                         !.stoppedReason = JStr(ReasonEssential)]}

Events ==
    {[DetailType |-> DeploymentStateChange, Detail |-> d] :
        d \in DeploymentDetails \cup MalformedDetails \cup SampleDetails}
    \cup {[DetailType |-> TaskStateChange, Detail |-> d] :
        d \in TaskDetails \cup MalformedDetails \cup SampleDetails}
    \cup {[DetailType |-> OtherDetailType, Detail |-> d] :
        d \in MalformedDetails \cup SampleDetails}

NoEvent == [DetailType |-> <<>>, Detail |-> EmptyObject]

\* the statuses the webhook answers with
Statuses == {200, 204, 302, 404}

(***************************************************************************)
(* The state machine: one invocation at a time, cfg fixed by init().       *)
(***************************************************************************)
Init ==
    /\ cfg \in Configs
    /\ pc = "idle"
    /\ event = NoEvent
    /\ isAlert = FALSE
    /\ subject = <<>>
    /\ message = <<>>
    /\ serviceName = <<>>
    /\ failureDetails = <<>>
    /\ ret = "none"
    /\ slackCalls = 0
    /\ slackPosts = 0
    /\ slackErr = "none"
    /\ respStatus = 0
    /\ emailCalls = 0
    /\ emailSends = 0
    /\ emailErr = "none"

\* handleRequest up to the test of isAlert (lines 87-169)
HandleRequest(ev) ==
    /\ pc = "idle"
    /\ event' = ev
    /\ UNCHANGED <<cfg, slackCalls, slackPosts, slackErr, respStatus,
                   emailCalls, emailSends, emailErr>>
    /\ IF DecodeFails(ev)
       THEN /\ ret' = "error"
            /\ pc' = "done"
            /\ isAlert' = InitialIsAlert
            /\ UNCHANGED <<subject, message, serviceName, failureDetails>>
       ELSE LET c == Classify(ev)
                name == ResolveServiceName(ev)
            IN  /\ isAlert' = c.isAlert
                /\ subject' = c.subject
                /\ message' = c.message
                /\ failureDetails' = c.failureDetails
                /\ serviceName' = name
                /\ IF FilterSkips(cfg.MonitoredServices, name)
                   THEN ret' = "nil" /\ pc' = "done"
                   ELSE IF c.isAlert
                   THEN ret' = "none" /\ pc' = "slack"
                   ELSE ret' = "nil" /\ pc' = "done"

\* sendSlackNotification(message) and the logging of its result (lines 171-175)
SendSlack ==
    /\ pc = "slack"
    /\ slackCalls' = slackCalls + 1
    /\ \/ /\ ~SlackConfigured(cfg)
          /\ slackErr' = "nil"
          /\ UNCHANGED <<slackPosts, respStatus>>
       \/ /\ SlackConfigured(cfg)
          /\ slackPosts' = slackPosts + 1
          /\ \/ slackErr' = "transport" /\ UNCHANGED respStatus
             \/ \E status \in Statuses :
                    /\ respStatus' = status
                    /\ slackErr' = StatusError(status)
    /\ pc' = AfterSlack(slackErr')
    /\ ret' = IF pc' = "done" THEN "nil" ELSE ret
    /\ UNCHANGED <<cfg, event, isAlert, subject, message, serviceName,
                   failureDetails, emailCalls, emailSends, emailErr>>

\* sendEmail(subject, message), the logging of its result and return nil
\* (lines 178-187)
SendEmail ==
    /\ pc = "email"
    /\ emailCalls' = emailCalls + 1
    /\ \/ /\ ~EmailConfigured(cfg)
          /\ emailErr' = "nil"
          /\ UNCHANGED emailSends
       \/ /\ EmailConfigured(cfg)
          /\ emailSends' = emailSends + 1
          /\ \E e \in {"nil", "ses"} : emailErr' = e
    /\ pc' = "done"
    /\ ret' = "nil"
    /\ UNCHANGED <<cfg, event, isAlert, subject, message, serviceName,
                   failureDetails, slackCalls, slackPosts, slackErr, respStatus>>

\* the invocation is over: the next one starts from fresh locals
Return ==
    /\ pc = "done"
    /\ pc' = "idle"
    /\ event' = NoEvent
    /\ isAlert' = FALSE
    /\ subject' = <<>>
    /\ message' = <<>>
    /\ serviceName' = <<>>
    /\ failureDetails' = <<>>
    /\ ret' = "none"
    /\ slackCalls' = 0
    /\ slackPosts' = 0
    /\ slackErr' = "none"
    /\ respStatus' = 0
    /\ emailCalls' = 0
    /\ emailSends' = 0
    /\ emailErr' = "none"
    /\ UNCHANGED cfg

Next ==
    \/ \E ev \in Events : HandleRequest(ev)
    \/ SendSlack
    \/ SendEmail
    \/ Return

Spec == Init /\ [][Next]_vars

(***************************************************************************)
(* The properties checked of the handler.  They are stated on the event    *)
(* of the current invocation and on what the invocation has done so far.   *)
(***************************************************************************)
Started == pc # "idle"
Finished == pc = "done"
IsDeployment == event.DetailType = DeploymentStateChange
IsTask == event.DetailType = TaskStateChange
DeploymentD == UnmarshalDeployment(event.Detail)
TaskD == UnmarshalTask(event.Detail)
Decoded == (IsDeployment => DeploymentD.ok) /\ (IsTask => TaskD.ok)
NothingSent ==
    slackCalls = 0 /\ slackPosts = 0 /\ emailCalls = 0 /\ emailSends = 0

\* the name is on the allowlist, or the allowlist is empty
Allowed(name) ==
    \/ cfg.MonitoredServices = <<>>
    \/ name \in {cfg.MonitoredServices[i] : i \in 1..Len(cfg.MonitoredServices)}

\* the part of str after its last c (all of str when it has none)
AfterLast(str, c) ==
    LET at == {i \in 1..Len(str) : str[i] = c}
        k == IF at = {} THEN 0 ELSE CHOOSE i \in at : \A j \in at : j <= i
    IN  SubSeq(str, k + 1, Len(str))

\* the part of str between its first c and its second c (or its end)
SecondPart(str, c) ==
    LET at == {i \in 1..Len(str) : str[i] = c}
        first == CHOOSE i \in at : \A j \in at : i <= j
        rest == at \ {first}
        second == IF rest = {} THEN Len(str) + 1
                  ELSE CHOOSE i \in rest : \A j \in rest : i <= j
    IN  SubSeq(str, first + 1, second - 1)

HasChar(str, c) == \E i \in 1..Len(str) : str[i] = c

\* the identifier the specification gives the current event
Identifier ==
    IF IsDeployment THEN AfterLast(DeploymentD.Service, "/")
    ELSE IF HasChar(TaskD.Group, ":") THEN SecondPart(TaskD.Group, ":")
    ELSE UnknownService

NonZeroExit == \E i \in 1..Len(TaskD.Containers) : TaskD.Containers[i].ExitCode # 0

ReasonNotBenign ==
    /\ TaskD.StoppedReason # <<>>
    /\ ~Contains(TaskD.StoppedReason, ScalingActivity)
    /\ ~Contains(TaskD.StoppedReason, ServiceScheduler)

RECURSIVE Lines(_)
Lines(cs) == IF cs = <<>> THEN <<>> ELSE ContainerLine(Head(cs)) \o Lines(Tail(cs))

Failing(c) == c.ExitCode # 0
FailingLines == Lines(SelectSeq(TaskD.Containers, Failing))
StoppedLine == FmtTaskStopped \o TaskD.StoppedReason \o <<"\n">>

\* C1 as stated: for every decoded task event, whatever its lastStatus, isAlert
\* is true iff a container has a non-zero exit code or the stopped reason is
\* non-empty and not benign.
C1_AlertIffAnyStatus ==
    (Started /\ IsTask /\ TaskD.ok) =>
        (isAlert <=> (NonZeroExit \/ ReasonNotBenign))

\* C1 amended: for every decoded task event, isAlert is true iff lastStatus is
\* STOPPED and a container has a non-zero exit code or the stopped reason is
\* non-empty and not benign.
C1_AlertIffStopped ==
    (Started /\ IsTask /\ TaskD.ok) =>
        (isAlert <=> (TaskD.LastStatus = Stopped /\ (NonZeroExit \/ ReasonNotBenign)))

C1_Witness ==
    /\ Started /\ IsTask /\ TaskD.ok /\ isAlert
    /\ ~NonZeroExit /\ TaskD.StoppedReason = ReasonEssential

\* C2: channel isolation: for an alerting event that passed the filter,
\* sendEmail is called exactly once whatever sendSlackNotification returned,
\* handleRequest returns nil whatever either channel returned, and a channel
\* that succeeded has delivered exactly once.
C2_ChannelIsolation ==
    (Started /\ Decoded /\ isAlert /\ Allowed(serviceName)) =>
        /\ slackCalls <= 1 /\ emailCalls <= 1
        /\ pc = "email" => slackCalls = 1 /\ emailCalls = 0
        /\ Finished =>
              /\ slackCalls = 1 /\ emailCalls = 1
              /\ ret = "nil"
              /\ (SlackConfigured(cfg) /\ slackErr = "nil") => slackPosts = 1
              /\ (EmailConfigured(cfg) /\ emailErr = "nil") => emailSends = 1

C2_Witness ==
    /\ Finished /\ isAlert /\ ret = "nil"
    /\ slackErr = "non200" /\ emailErr = "nil" /\ emailSends = 1

\* C3: handleRequest returns an error iff the category is one of the two
\* recognized ones and the detail fails to decode; then nothing is resolved,
\* filtered or sent.  Every other invocation returns nil.
C3_ErrorIffDecodeFails ==
    Finished =>
        /\ ret \in {"nil", "error"}
        /\ ret = "error" <=> \/ IsDeployment /\ ~DeploymentD.ok
                             \/ IsTask /\ ~TaskD.ok
        /\ ret = "error" => NothingSent /\ serviceName = <<>> /\ ~isAlert

C3_Witness ==
    Finished /\ ret = "error" /\ IsDeployment /\ event.Detail.valid

\* C4: the filter gate: an event passes iff the allowlist is empty or holds its
\* identifier exactly; a skipped event returns nil with nothing sent, even when
\* it was classified as an alert.
C4_FilterGate ==
    (Started /\ Decoded) =>
        /\ ~Allowed(serviceName) => Finished /\ ret = "nil" /\ NothingSent
        /\ (Allowed(serviceName) /\ isAlert /\ Finished) =>
               slackCalls = 1 /\ emailCalls = 1

C4_Witness ==
    /\ Finished /\ isAlert /\ NothingSent /\ ret = "nil"
    /\ serviceName = <<"a">> /\ cfg.MonitoredServices = <<<<"A">>, <<"a", "a">>>>

\* C5 as stated: with a webhook URL and a completed exchange, chat delivery
\* succeeds for every status from 200 to 299 and fails for every other one.
C5_SuccessIff2xx ==
    (slackPosts = 1 /\ respStatus # 0) =>
        (slackErr = "nil" <=> (respStatus >= 200 /\ respStatus <= 299))

\* C5 amended: with a webhook URL and a completed exchange, chat delivery
\* succeeds for status 200 and fails for every other status, the other 2xx
\* ones included.
C5_SuccessIff200 ==
    (slackPosts = 1 /\ respStatus # 0) =>
        (slackErr = "nil" <=> respStatus = 200)

C5_Witness == slackPosts = 1 /\ respStatus = 204 /\ slackErr = "non200"

\* C6 as stated: every decoded deployment event, whatever its eventName, alerts
\* with the subject "ECS Service Rollback/Failure: " and the last part of the
\* service reference, and a body of service, event name, reason and cluster.
C6_RollbackSubjectAlways ==
    (Started /\ IsDeployment /\ DeploymentD.ok) =>
        /\ isAlert
        /\ subject = RollbackSubjectPrefix \o AfterLast(DeploymentD.Service, "/")
        /\ message = FmtService \o AfterLast(DeploymentD.Service, "/")
                     \o FmtNlEvent \o DeploymentD.EventName
                     \o FmtNlReasonB \o DeploymentD.Reason
                     \o FmtNlClusterB \o AfterLast(DeploymentD.Cluster, "/")

\* C6 amended: every decoded deployment event alerts; when eventName is
\* SERVICE_DEPLOYMENT_FAILED the subject and body are the ones above, and for
\* every other eventName the subject is "ECS Deployment Alert" and the body
\* holds the event name, cluster, service and reason as received.
C6_RollbackSubjectWhenFailed ==
    (Started /\ IsDeployment /\ DeploymentD.ok) =>
        /\ isAlert
        /\ DeploymentD.EventName = DeploymentFailed =>
              /\ subject = RollbackSubjectPrefix \o AfterLast(DeploymentD.Service, "/")
              /\ message = FmtService \o AfterLast(DeploymentD.Service, "/")
                           \o FmtNlEvent \o DeploymentD.EventName
                           \o FmtNlReasonB \o DeploymentD.Reason
                           \o FmtNlClusterB \o AfterLast(DeploymentD.Cluster, "/")
        /\ DeploymentD.EventName # DeploymentFailed =>
              /\ subject = DeploymentAlertSubject
              /\ message = FmtDeploymentEvent \o DeploymentD.EventName
                           \o FmtNlCluster \o DeploymentD.Cluster
                           \o FmtNlService \o DeploymentD.Service
                           \o FmtNlReason \o DeploymentD.Reason

C6_Witness ==
    /\ Started /\ IsDeployment /\ DeploymentD.ok /\ isAlert
    /\ DeploymentD.EventName = DeploymentFailed
    /\ DeploymentD.Service = <<"s", "/", "a", "/", "a", "a">>
    /\ subject = RollbackSubjectPrefix \o <<"a", "a">>

\* C7: an event of any other category returns nil, is no alert and sends
\* nothing, whatever its detail and whatever the allowlist.
C7_OtherCategoryIgnored ==
    (Started /\ ~IsDeployment /\ ~IsTask) =>
        /\ Finished /\ ret = "nil" /\ ~isAlert /\ NothingSent
        /\ subject = <<>> /\ message = <<>>

C7_Witness ==
    /\ Finished /\ ~IsDeployment /\ ~IsTask /\ ~event.Detail.valid
    /\ cfg.MonitoredServices # <<>>

\* C8: in one invocation the chat channel is sent to iff the detail decoded,
\* isAlert is true, the filter passed and the webhook URL is set; the email
\* channel iff the detail decoded, isAlert is true, the filter passed and both
\* addresses are set; an unset channel is skipped without error and no channel
\* is sent to twice.
C8_SendIffConfigured ==
    /\ slackPosts <= 1 /\ emailSends <= 1
    /\ (slackCalls = 1 /\ cfg.SlackWebhookURL = <<>>) =>
           slackPosts = 0 /\ slackErr = "nil"
    /\ (emailCalls = 1 /\ (cfg.SenderEmail = <<>> \/ cfg.RecipientEmail = <<>>)) =>
           emailSends = 0 /\ emailErr = "nil"
    /\ Finished =>
          /\ slackPosts = 1 <=>
                 /\ Decoded /\ isAlert /\ Allowed(serviceName)
                 /\ cfg.SlackWebhookURL # <<>>
          /\ emailSends = 1 <=>
                 /\ Decoded /\ isAlert /\ Allowed(serviceName)
                 /\ cfg.SenderEmail # <<>> /\ cfg.RecipientEmail # <<>>

C8_Witness ==
    /\ Finished /\ isAlert /\ emailCalls = 1 /\ emailSends = 0
    /\ cfg.SenderEmail # <<>> /\ cfg.RecipientEmail = <<>>
    /\ slackPosts = 1 /\ slackErr = "transport"

\* C9: the identifier the filter compares is, for a deployment event, the part
\* of the service reference after its last "/", and for a task event the
\* second ":"-separated part of group, or "Unknown (Task run manually?)" when
\* group has no ":"; the failure subjects end with the same identifier.
C9_IdentifierRule ==
    (Started /\ Decoded /\ (IsDeployment \/ IsTask)) =>
        /\ serviceName = Identifier
        /\ (~Finished \/ slackCalls = 1) => Allowed(Identifier)
        /\ (IsTask /\ isAlert) => subject = TaskFailureSubjectPrefix \o serviceName
        /\ (IsDeployment /\ DeploymentD.EventName = DeploymentFailed) =>
               subject = RollbackSubjectPrefix \o serviceName

C9_Witness ==
    /\ Started /\ IsTask /\ TaskD.ok /\ isAlert
    /\ TaskD.Group = <<"s", ":", "a", ":", "a", "a">>
    /\ serviceName = <<"a">>
    /\ cfg.MonitoredServices = <<<<"a">>>> /\ slackCalls = 1

\* C10: a task that is not STOPPED never alerts and has no subject or body; a
\* STOPPED task's failure details are one line for each container with a
\* non-zero exit code, in order, followed by the "- Task stopped:" line only
\* when no container failed and the stopped reason is non-empty and not
\* benign; with neither, isAlert is false and nothing is sent.
C10_TaskClassificationOrder ==
    (Started /\ IsTask /\ TaskD.ok) =>
        /\ TaskD.LastStatus # Stopped =>
               ~isAlert /\ subject = <<>> /\ message = <<>> /\ NothingSent
        /\ TaskD.LastStatus = Stopped =>
              /\ failureDetails =
                     IF ~NonZeroExit /\ ReasonNotBenign THEN StoppedLine
                     ELSE FailingLines
              /\ isAlert => message = FmtService \o serviceName
                                      \o FmtNlTaskArn \o TaskD.TaskArn
                                      \o FmtNlFailureDetails \o failureDetails
              /\ (~NonZeroExit /\ ~ReasonNotBenign) =>
                     ~isAlert /\ subject = <<>> /\ message = <<>> /\ NothingSent

C10_Witness ==
    /\ Finished /\ IsTask /\ TaskD.ok /\ TaskD.LastStatus = Stopped
    /\ Len(TaskD.Containers) = 2
    /\ TaskD.Containers[1].ExitCode = 137 /\ TaskD.Containers[2].ExitCode = 1
    /\ TaskD.StoppedReason = ReasonEssential
    /\ failureDetails = ContainerLine(TaskD.Containers[1])
                        \o ContainerLine(TaskD.Containers[2])
    /\ emailCalls = 1

====
